---- MODULE Spec2Model ----
(***************************************************************************)
(* Model of ts-experiments/src/id-caching.ts: the NormalIdGenerator and    *)
(* CachedIdGenerator classes, runTrials, printComparisonTable and          *)
(* runExperiment.                                                          *)
(*                                                                         *)
(* uuidv4() is modelled as a source of fresh values: its n-th call returns *)
(* the natural number n (the claims assume it never repeats a value).      *)
(* The clock counts whole milliseconds, so the measured durations are      *)
(* integers; the numbers the program divides and prints are IEEE 754       *)
(* doubles, divided and formatted bit for bit as JavaScript does.          *)
(***************************************************************************)
EXTENDS Integers, Sequences, FiniteSets, TLC

\* ---------------------------------------------------------------- bounds
MaxPoolSize == 4
MaxTrials == 2
MaxIdCount == 2
MaxClock == 3
MaxCalls == 8
MaxRows == 2

\* ------------------------------------------------- the shipped constants
ShippedPoolSize == 1000000
ShippedIdCount == 100000
ShippedTrials == 5
MICROSECONDS_CONVERSION == 1000

VARIABLES
    pc,            \* position of the caller: "start", "pool", "loop", "averaged", "print", "done"
    ID_POOL_SIZE,  \* CachedIdGenerator.ID_POOL_SIZE
    ID_COUNT,      \* module constant ID_COUNT
    trials,        \* argument of runExperiment / runTrials
    uuidCount,     \* number of uuidv4() calls made so far
    idPool,        \* CachedIdGenerator.idPool
    regenCalls,    \* history: number of regenerateIdPool invocations
    discarded,     \* history: identifiers dropped by `this.idPool = []`
    initialPool,   \* history: the pool as the constructor left it
    log,           \* history: one record per generateId() call on the cached generator
    normalCalls,   \* history: number of NormalIdGenerator.generateId() calls
    gen,           \* the idGenerator argument of the running runTrials
    i, j,          \* loop indices of runTrials (lines 70-71)
    clock,         \* the value performance.now() returns
    times,         \* runTrials: times
    averageTimes,  \* runTrials: averageTimes
    normalTimes,   \* runExperiment: normalTimes
    cachedTimes,   \* runExperiment: cachedTimes
    table          \* printComparisonTable: table

poolVars == <<ID_POOL_SIZE, uuidCount, idPool, regenCalls, discarded, initialPool, log, normalCalls>>
trialVars == <<ID_COUNT, trials, gen, i, j, clock, times, averageTimes, normalTimes, cachedTimes, table>>
vars == <<pc, poolVars, trialVars>>

\* --------------------------------------------------------------- helpers
Min(a, b) == IF a < b THEN a ELSE b

Range(s) == {s[k] : k \in 1..Len(s)}

\* The value `undefined`, which Array.prototype.pop returns on an empty array.
Undefined == 0

\* The value of the uuidv4() call made after n earlier calls.
Uuidv4(n) == n + 1

\* `!id` for an identifier or undefined (a uuid string is never empty).
Falsy(id) == id = Undefined

\* ------------------------------------------------------ NormalIdGenerator
NormalGenerateId(n) == [id |-> Uuidv4(n), n |-> n + 1]

\* ------------------------------------------------------ CachedIdGenerator
\* Faulty variant of Pop: two elements leave the array.
PopTwice(pool) ==
    IF pool = <<>> THEN [id |-> Undefined, pool |-> <<>>]
    ELSE [id |-> pool[Len(pool)], pool |-> SubSeq(pool, 1, Len(pool) - 2)]

\* Faulty variant of Pop: the element read stays in the array.
PopKeep(pool) ==
    IF pool = <<>> THEN [id |-> Undefined, pool |-> <<>>]
    ELSE [id |-> pool[Len(pool)], pool |-> pool]

\* this.idPool.pop(): the last element (or undefined) and the array left.
Pop(pool) ==
    IF pool = <<>> THEN [id |-> Undefined, pool |-> <<>>]
    ELSE [id |-> pool[Len(pool)], pool |-> SubSeq(pool, 1, Len(pool) - 1)]

\* The for loop of regenerateIdPool from index k on.
RECURSIVE RegenLoop(_, _, _, _)
RegenLoop(pool, k, size, n) ==
    IF k < size THEN RegenLoop(Append(pool, Uuidv4(n)), k + 1, size, n + 1)
    ELSE [pool |-> pool, n |-> n]

\* Faulty variant of RegenerateIdPool: the loop runs once too often.
RegenerateIdPoolOneMore(size, n) == RegenLoop(<<>>, 0, size + 1, n)

\* Faulty variant of RegenerateIdPool: the loop stops one short.
RegenerateIdPoolOneLess(size, n) == RegenLoop(<<>>, 0, size - 1, n)

\* regenerateIdPool(): an async function without an await, so its whole body
\* runs before the call returns. The old pool is dropped and `size` new
\* identifiers are pushed.
RegenerateIdPool(size, n) == RegenLoop(<<>>, 0, size, n)

\* Faulty variant of GenerateId: the regeneration started on an empty pool
\* has put nothing in the pool when the call returns.
GenerateIdNoRefill(pool, size, n) ==
    LET p == Pop(pool) IN
    IF Falsy(p.id)
    THEN [id |-> Uuidv4(n), pool |-> p.pool, n |-> n + 1, regenerated |-> TRUE]
    ELSE [id |-> p.id, pool |-> p.pool, n |-> n, regenerated |-> FALSE]

\* Variant of GenerateId with a synchronous refill: on an empty pool the
\* call returns an element of the regenerated pool.
GenerateIdFromRefill(pool, size, n) ==
    LET p == Pop(pool) IN
    IF Falsy(p.id)
    THEN LET r == RegenerateIdPool(size, n)
             q == Pop(r.pool)
         IN  [id |-> q.id, pool |-> q.pool, n |-> r.n, regenerated |-> TRUE]
    ELSE [id |-> p.id, pool |-> p.pool, n |-> n, regenerated |-> FALSE]

\* generateId(): the identifier returned, the pool and the uuid count left,
\* and whether regenerateIdPool was invoked. On an empty pool the pool is
\* regenerated first and the identifier returned is generated after it.
GenerateId(pool, size, n) ==
    LET p == Pop(pool) IN
    IF Falsy(p.id)
    THEN LET r == RegenerateIdPool(size, n)
         IN  [id |-> Uuidv4(r.n), pool |-> r.pool, n |-> r.n + 1, regenerated |-> TRUE]
    ELSE [id |-> p.id, pool |-> p.pool, n |-> n, regenerated |-> FALSE]

\* Faulty variant of Constructor: the pool is left empty.
ConstructorNoFill(size, n) == [pool |-> <<>>, n |-> n]

\* constructor(): this.idPool = []; this.regenerateIdPool().
Constructor(size, n) == RegenerateIdPool(size, n)

\* ------------------------------------------------------------ arithmetic
\* A JavaScript number is an IEEE 754 double. The numbers of this program
\* are never negative, so a number is modelled as
\*   [kind |-> "number", mant |-> m, exp |-> e]   the value m * 2^e, with
\*       2^52 <= m < 2^53, or m = 0 and e = 0 for zero,
\*   [kind |-> "Infinity", ...] or [kind |-> "NaN", ...].
\* A mantissa, and every intermediate integer below 2^63, is kept as three
\* limbs <<high, middle, low>> of 21 bits. Exponents stay far inside the
\* double's range here, so overflow and subnormal results are not modelled.
Limb == 2 ^ 21

Zero3 == <<0, 0, 0>>

One3 == <<0, 0, 1>>

\* 2^52, the smallest mantissa of a non-zero number.
MinMant3 == <<2 ^ 10, 0, 0>>

\* Carries propagated out of limbs that grew past 21 bits.
Norm3(t) ==
    LET m == t[2] + t[3] \div Limb
    IN  <<t[1] + m \div Limb, m % Limb, t[3] % Limb>>

Int3(n) == Norm3(<<0, 0, n>>)

Add3(a, b) == Norm3(<<a[1] + b[1], a[2] + b[2], a[3] + b[3]>>)

\* a * k for a small k.
Times3(a, k) == Norm3(<<a[1] * k, a[2] * k, a[3] * k>>)

Geq3(a, b) ==
    \/ a[1] > b[1]
    \/ a[1] = b[1] /\ a[2] > b[2]
    \/ a[1] = b[1] /\ a[2] = b[2] /\ a[3] >= b[3]

\* a - b for a >= b.
Sub3(a, b) ==
    LET bl == IF a[3] < b[3] THEN 1 ELSE 0
        bm == IF a[2] - bl < b[2] THEN 1 ELSE 0
    IN  <<a[1] - b[1] - bm, a[2] - b[2] - bl + bm * Limb, a[3] - b[3] + bl * Limb>>

\* a \div 2^k, a whole limb of 21 places or up to 10 places at a time.
RECURSIVE ShiftRight3(_, _)
ShiftRight3(a, k) ==
    IF k = 0 \/ a = Zero3 THEN a
    ELSE IF k >= 21 THEN ShiftRight3(<<0, a[1], a[2]>>, k - 21)
    ELSE LET w == IF k > 10 THEN 10 ELSE k
             p == 2 ^ w
         IN  ShiftRight3(<<a[1] \div p,
                           ((a[1] % p) * Limb + a[2]) \div p,
                           ((a[2] % p) * Limb + a[3]) \div p>>, k - w)

\* a * 2^k for a result below 2^63, a whole limb of 21 places or up to 9
\* places at a time.
RECURSIVE ShiftLeft3(_, _)
ShiftLeft3(a, k) ==
    IF k = 0 \/ a = Zero3 THEN a
    ELSE IF k >= 21 /\ a[1] = 0 THEN ShiftLeft3(<<a[2], a[3], 0>>, k - 21)
    ELSE LET w == IF k > 9 THEN 9 ELSE k
         IN  ShiftLeft3(Times3(a, 2 ^ w), k - w)

\* The value of an integer below 2^31.
ToInt3(a) == a[2] * Limb + a[3]

NaN == [kind |-> "NaN", mant |-> Zero3, exp |-> 0]

Infinity == [kind |-> "Infinity", mant |-> Zero3, exp |-> 0]

Zero == [kind |-> "number", mant |-> Zero3, exp |-> 0]

IsZero(x) == x.kind = "number" /\ x.mant = Zero3

\* m * 2^e for 0 < m < 2^53, with the mantissa brought to 53 bits.
RECURSIVE Normalize(_, _)
Normalize(m, e) ==
    IF Geq3(m, MinMant3) THEN [kind |-> "number", mant |-> m, exp |-> e]
    ELSE IF m[1] = 0 /\ m[2] < 2 ^ 11 THEN Normalize(<<m[2], m[3], 0>>, e - 21)
    ELSE IF m[1] < 2 ^ 5 THEN Normalize(Times3(m, 2 ^ 5), e - 5)
    ELSE Normalize(Add3(m, m), e - 1)

\* The number whose value is the integer n, 0 <= n < 2^31.
FromInt(n) == IF n = 0 THEN Zero ELSE Normalize(Int3(n), 0)

\* The w <= 8 binary places that r * 2^w \div d adds to a quotient, for
\* r < d and 2^52 <= d < 2^53: a digit estimated from the leading 21 bits
\* of r and of d, never too large, and raised while the remainder allows.
RECURSIVE DigitLoop(_, _, _)
DigitLoop(digit, r, d) ==
    IF Geq3(r, d) THEN DigitLoop(digit + 1, Sub3(r, d), d)
    ELSE [digit |-> digit, r |-> r]

Digit(r, d, w) ==
    LET lead == (r[1] * 2 ^ 10 + r[2] \div 2 ^ 11) * 2 ^ w
        by == d[1] * 2 ^ 10 + d[2] \div 2 ^ 11 + 1
        estimate == lead \div by
    IN  DigitLoop(estimate, Sub3(Times3(r, 2 ^ w), Times3(d, estimate)), d)

\* Long division of r by d, up to 8 binary places at a time, for n more
\* places: the quotient q with those places appended, and the remainder.
RECURSIVE DivLoop(_, _, _, _)
DivLoop(q, r, d, n) ==
    IF n = 0 THEN [q |-> q, r |-> r]
    ELSE LET w == IF n > 8 THEN 8 ELSE n
             step == Digit(r, d, w)
         IN  DivLoop(Add3(Times3(q, 2 ^ w), Int3(step.digit)), step.r, d, n - w)

\* a / b for two non-zero finite numbers: the quotient of the mantissas to
\* 56 bits, rounded to 53 bits, to nearest and to even on a tie.
DivideFinite(a, b) ==
    LET big == Geq3(a.mant, b.mant)
        places == IF big THEN 55 ELSE 56
        res == DivLoop(IF big THEN One3 ELSE Zero3,
                       IF big THEN Sub3(a.mant, b.mant) ELSE a.mant, b.mant, places)
        low == res.q[3] % 8
        kept == ShiftRight3(res.q, 3)
        up == \/ low > 4
              \/ low = 4 /\ (res.r # Zero3 \/ kept[3] % 2 = 1)
        m == IF up THEN Add3(kept, One3) ELSE kept
        e == a.exp - b.exp - places + 3
    IN  IF Geq3(m, Add3(MinMant3, MinMant3))
        THEN [kind |-> "number", mant |-> MinMant3, exp |-> e + 1]
        ELSE [kind |-> "number", mant |-> m, exp |-> e]

\* a / b.
Divide(a, b) ==
    IF a.kind = "NaN" \/ b.kind = "NaN" THEN NaN
    ELSE IF a.kind = "Infinity" THEN (IF b.kind = "Infinity" THEN NaN ELSE Infinity)
    ELSE IF b.kind = "Infinity" THEN Zero
    ELSE IF IsZero(b) THEN (IF IsZero(a) THEN NaN ELSE Infinity)
    ELSE IF IsZero(a) THEN Zero
    ELSE DivideFinite(a, b)

\* 1 / q.
Reciprocal(q) == Divide(FromInt(1), q)

\* q > 1 (false for NaN, true for Infinity).
GreaterThanOne(q) ==
    \/ q.kind = "Infinity"
    \/ /\ q.kind = "number"
       /\ ~IsZero(q)
       /\ q.exp > -52 \/ (q.exp = -52 /\ q.mant # MinMant3)

\* q.toFixed(2), as <<"finite", n>> for the text of n hundredths: n / 100 is
\* as close to the double q as possible, the larger n when two are equally
\* close; "Infinity" and "NaN" print as such. For q below 2^31 / 100.
ToFixed2(q) ==
    IF q.kind # "number" THEN <<q.kind, 0>>
    ELSE IF IsZero(q) \/ q.exp <= -61 THEN <<"finite", 0>>
    ELSE IF q.exp >= 0 THEN <<"finite", ToInt3(ShiftLeft3(Times3(q.mant, 100), q.exp))>>
    ELSE <<"finite",
           ToInt3(ShiftRight3(Add3(Times3(q.mant, 200), ShiftLeft3(One3, -q.exp)),
                              1 - q.exp))>>

\* s.slice(from, to): 0-based, `to` excluded and clamped to the length.
Slice(s, from, to) ==
    LET e == Min(to, Len(s)) IN
    IF from >= e THEN <<>> ELSE SubSeq(s, from + 1, e)

\* s.reduce((a, b) => a + b, 0).
RECURSIVE Reduce(_)
Reduce(s) == IF s = <<>> THEN 0 ELSE Reduce(SubSeq(s, 1, Len(s) - 1)) + s[Len(s)]

\* ------------------------------------------------------------- runTrials
\* Faulty variant of AverageTimes: slice is called without its end index.
AverageTimesNoEnd(ts, t, idCount) ==
    [k \in 1..t |->
        LET trialTimes == Slice(ts, (k - 1) * idCount, Len(ts))
        IN  Divide(FromInt(Reduce(trialTimes)), FromInt(Len(trialTimes)))]

\* Lines 78-84: one mean per trial, the sum of the trial's slice of `times`
\* (integers, so the sum is exact) divided by the slice's length.
AverageTimes(ts, t, idCount) ==
    [k \in 1..t |->
        LET trialTimes == Slice(ts, (k - 1) * idCount, k * idCount)
        IN  Divide(FromInt(Reduce(trialTimes)), FromInt(Len(trialTimes)))]

\* -------------------------------------------------- printComparisonTable
\* Faulty variant of DifferenceLabel: `difference >= 1` for `difference > 1`.
DifferenceLabelTieFaster(normalTime, cachedTime) ==
    LET difference == Divide(normalTime, cachedTime) IN
    IF GreaterThanOne(difference) \/ difference = FromInt(1)
    THEN <<ToFixed2(difference), "x faster">>
    ELSE <<ToFixed2(Reciprocal(difference)), "x slower">>

\* Lines 93-97: the ratio printed and its label.
DifferenceLabel(normalTime, cachedTime) ==
    LET difference == Divide(normalTime, cachedTime) IN
    IF GreaterThanOne(difference)
    THEN <<ToFixed2(difference), "x faster">>
    ELSE <<ToFixed2(Reciprocal(difference)), "x slower">>

\* Lines 89-104: one row per index of normalTimes.
ComparisonTable(nTimes, cTimes) ==
    [k \in 1..Len(nTimes) |->
        [Trial |-> k,
         Normal |-> ToFixed2(nTimes[k]),
         Cached |-> ToFixed2(cTimes[k]),
         Difference |-> DifferenceLabel(nTimes[k], cTimes[k])]]

\* ----------------------------------------------------------------- state
\* The history record of one generateId() call on the cached generator.
LogEntry(r, before) ==
    [id |-> r.id,
     from |-> IF r.regenerated THEN "direct" ELSE "pool",
     poolBefore |-> before,
     poolAfter |-> r.pool,
     regens |-> regenCalls + (IF r.regenerated THEN 1 ELSE 0)]

\* new CachedIdGenerator().
NewCached ==
    LET c == Constructor(ID_POOL_SIZE, uuidCount) IN
    /\ idPool' = c.pool
    /\ uuidCount' = c.n
    /\ regenCalls' = regenCalls + 1
    /\ initialPool' = c.pool
    /\ UNCHANGED <<ID_POOL_SIZE, discarded, log, normalCalls>>

\* cachedIdGenerator.generateId().
CachedCall ==
    LET r == GenerateId(idPool, ID_POOL_SIZE, uuidCount) IN
    /\ idPool' = r.pool
    /\ uuidCount' = r.n
    /\ regenCalls' = regenCalls + (IF r.regenerated THEN 1 ELSE 0)
    /\ discarded' = discarded + (IF r.regenerated THEN Len(Pop(idPool).pool) ELSE 0)
    /\ log' = Append(log, LogEntry(r, idPool))
    /\ UNCHANGED <<ID_POOL_SIZE, initialPool, normalCalls>>

\* normalIdGenerator.generateId().
NormalCall ==
    /\ uuidCount' = NormalGenerateId(uuidCount).n
    /\ normalCalls' = normalCalls + 1
    /\ UNCHANGED <<ID_POOL_SIZE, idPool, regenCalls, discarded, initialPool, log>>

InitCommon ==
    /\ pc = "start"
    /\ ID_POOL_SIZE \in 1..MaxPoolSize
    /\ uuidCount = 0
    /\ idPool = <<>>
    /\ regenCalls = 0
    /\ discarded = 0
    /\ initialPool = <<>>
    /\ log = <<>>
    /\ normalCalls = 0
    /\ gen = "normal"
    /\ i = 0
    /\ j = 0
    /\ clock = 0
    /\ times = <<>>
    /\ averageTimes = <<>>
    /\ normalTimes = <<>>
    /\ cachedTimes = <<>>
    /\ table = <<>>

\* ------------------------------------- the generators under any caller
InitPool ==
    /\ InitCommon
    /\ ID_COUNT = 1
    /\ trials = 0

NewCachedIdGenerator ==
    /\ pc = "start"
    /\ pc' = "pool"
    /\ NewCached
    /\ UNCHANGED trialVars

CachedGenerateId ==
    /\ pc = "pool"
    /\ Len(log) + normalCalls < MaxCalls
    /\ CachedCall
    /\ UNCHANGED <<pc, trialVars>>

NormalGenerateIdCall ==
    /\ pc = "pool"
    /\ Len(log) + normalCalls < MaxCalls
    /\ NormalCall
    /\ UNCHANGED <<pc, trialVars>>

NextPool == NewCachedIdGenerator \/ CachedGenerateId \/ NormalGenerateIdCall

SpecPool == InitPool /\ [][NextPool]_vars

\* --------------------------------------------------------- runExperiment
Init ==
    /\ InitCommon
    /\ ID_COUNT \in 1..MaxIdCount
    /\ trials \in 0..MaxTrials

\* Lines 109-113: both generators are constructed and runTrials is entered
\* for the normal one.
RunExperimentStart ==
    /\ pc = "start"
    /\ pc' = "loop"
    /\ NewCached
    /\ UNCHANGED trialVars

\* Lines 72-75: one timed call of the loop body; d is the time the call takes.
RunTrialsCall ==
    /\ pc = "loop"
    /\ i < trials
    /\ \E d \in 0..(MaxClock - clock) :
        LET idStartTime == clock
            idEndTime == clock + d
        IN  /\ clock' = idEndTime
            /\ times' = Append(times, (idEndTime - idStartTime) * MICROSECONDS_CONVERSION)
    /\ IF gen = "normal" THEN NormalCall ELSE CachedCall
    /\ IF j + 1 < ID_COUNT
       THEN j' = j + 1 /\ i' = i
       ELSE j' = 0 /\ i' = i + 1
    /\ UNCHANGED <<pc, ID_COUNT, trials, gen, averageTimes, normalTimes, cachedTimes, table>>

\* Lines 78-84.
RunTrialsAverage ==
    /\ pc = "loop"
    /\ ~(i < trials)
    /\ pc' = "averaged"
    /\ averageTimes' = AverageTimes(times, trials, ID_COUNT)
    /\ UNCHANGED <<poolVars, ID_COUNT, trials, gen, i, j, clock, times, normalTimes, cachedTimes, table>>

\* Line 85, and the caller's lines 113-116.
RunTrialsReturn ==
    /\ pc = "averaged"
    /\ IF gen = "normal"
       THEN /\ normalTimes' = averageTimes
            /\ gen' = "cached"
            /\ pc' = "loop"
            /\ UNCHANGED cachedTimes
       ELSE /\ cachedTimes' = averageTimes
            /\ pc' = "print"
            /\ UNCHANGED <<normalTimes, gen>>
    /\ i' = 0
    /\ j' = 0
    /\ times' = <<>>
    /\ averageTimes' = <<>>
    /\ UNCHANGED <<poolVars, ID_COUNT, trials, clock, table>>

\* Line 118.
PrintComparisonTable ==
    /\ pc = "print"
    /\ pc' = "done"
    /\ table' = ComparisonTable(normalTimes, cachedTimes)
    /\ UNCHANGED <<poolVars, ID_COUNT, trials, gen, i, j, clock, times, averageTimes, normalTimes, cachedTimes>>

Next ==
    \/ RunExperimentStart
    \/ RunTrialsCall
    \/ RunTrialsAverage
    \/ RunTrialsReturn
    \/ PrintComparisonTable

Spec == Init /\ [][Next]_vars

\* ------------------------------------- printComparisonTable on any input
\* The pairs <<normal mean, cached mean>>, in whole microseconds, that a row
\* is drawn from: the specification's examples, zero means, quotients that
\* do not end after two decimals, and quotients that lie exactly between
\* two hundredths.
MeanPairs ==
    {<<10, 5>>, <<5, 10>>, <<5, 5>>, <<0, 0>>, <<0, 5>>, <<5, 0>>,
     <<3, 1>>, <<1, 3>>, <<7, 3>>, <<3, 7>>,
     <<43, 40>>, <<40, 43>>, <<201, 200>>, <<200, 201>>, <<93, 8>>, <<8, 93>>}

\* printComparisonTable reads its two arguments only: it is entered with
\* two sequences of the same length, of 1 to MaxRows means each.
InitTable ==
    /\ pc = "print"
    /\ \E len \in 1..MaxRows :
        \E rows \in [1..len -> MeanPairs] :
            /\ trials = len
            /\ normalTimes = [k \in 1..len |-> FromInt(rows[k][1])]
            /\ cachedTimes = [k \in 1..len |-> FromInt(rows[k][2])]
    /\ ID_POOL_SIZE = 1
    /\ ID_COUNT = 1
    /\ uuidCount = 0
    /\ idPool = <<>>
    /\ regenCalls = 0
    /\ discarded = 0
    /\ initialPool = <<>>
    /\ log = <<>>
    /\ normalCalls = 0
    /\ gen = "cached"
    /\ i = 0
    /\ j = 0
    /\ clock = 0
    /\ times = <<>>
    /\ averageTimes = <<>>
    /\ table = <<>>

NextTable == PrintComparisonTable

SpecTable == InitTable /\ [][NextTable]_vars

\* ------------------------------------------------------------ properties
Calls == Len(log)

Pooled(k) == log[k].from = "pool"

Direct(k) == log[k].from = "direct"

Ids(lo, hi) == {log[k].id : k \in lo..hi}

\* C1: no two identifiers returned by generateId() calls on one
\* CachedIdGenerator are equal, whether they were served from the pool
\* before or after a regeneration or generated directly by the fallback.
C1_NoRepeatedId ==
    \A a, b \in 1..Calls : a # b => log[a].id # log[b].id

\* C1's case: pooled identifiers before the first regeneration, a fallback
\* identifier, and a pooled identifier after it, with other uuid users between.
C1_Witness ==
    /\ normalCalls > 0
    /\ \E k \in 2..(Calls - 1) : Pooled(k - 1) /\ Direct(k) /\ Pooled(k + 1)

\* C2 as stated: after construction the pool length is between 0 and the
\* capacity, and every generateId() call removes exactly one element.
C2_EveryCallRemovesOne ==
    pc # "start" =>
        /\ Len(idPool) \in 0..ID_POOL_SIZE
        /\ \A k \in 1..Calls : Len(log[k].poolAfter) = Len(log[k].poolBefore) - 1

\* C2 as amended: after construction the pool length is between 0 and the
\* capacity; a generateId() call that finds the pool non-empty removes
\* exactly its last element, and a call that finds it empty removes nothing
\* and leaves the pool refilled to the capacity.
C2_PoolBounds ==
    pc # "start" =>
        /\ Len(idPool) \in 0..ID_POOL_SIZE
        /\ \A k \in 1..Calls :
            LET b == log[k].poolBefore
                a == log[k].poolAfter
            IN  IF b # <<>>
                THEN a = SubSeq(b, 1, Len(b) - 1) /\ log[k].id = b[Len(b)]
                ELSE Len(a) = ID_POOL_SIZE

\* C2's case: a call on a non-empty pool, a call on the empty pool, and the
\* pool drained again afterwards.
C2_Witness ==
    /\ idPool = <<>>
    /\ \E k \in 2..Calls : log[k].poolBefore = <<>> /\ log[k - 1].poolBefore # <<>>

\* C3: a fresh generator of capacity C serves its first C calls with C
\* distinct identifiers of the initial pool without invoking
\* regenerateIdPool, and call C + 1 is the first to invoke it and returns a
\* directly generated identifier.
C3_FirstRefillAtCapacityPlusOne ==
    pc # "start" =>
        LET C == ID_POOL_SIZE
            n == Min(Calls, C)
        IN  /\ Len(initialPool) = C
            /\ \A k \in 1..n :
                Pooled(k) /\ log[k].regens = 1 /\ log[k].id \in Range(initialPool)
            /\ Cardinality(Ids(1, n)) = n
            /\ Calls > C =>
                /\ Direct(C + 1)
                /\ log[C + 1].regens = 2
                /\ log[C + 1].id \notin Range(initialPool)

\* C3's case: a pool of several identifiers used up and the next call made.
C3_Witness ==
    /\ ID_POOL_SIZE >= 3
    /\ Calls = ID_POOL_SIZE + 1
    /\ Direct(Calls)

\* C4 as stated: the call that finds the pool empty returns without waiting
\* for the regeneration it started, so the regeneration is unfinished when
\* it returns and the next call can find the pool empty again.
C4_ReturnsBeforeRegenerationEnds ==
    \A k \in 1..Calls : Direct(k) => Len(log[k].poolAfter) < ID_POOL_SIZE

\* C4 as amended: regenerateIdPool has no await, so it runs to completion
\* inside the generateId() call that found the pool empty: when that call
\* returns the pool holds ID_POOL_SIZE new identifiers and the next call is
\* served from it; no two consecutive calls take the fallback.
C4_RegenerationCompletesInCall ==
    \A k \in 1..Calls :
        Direct(k) =>
            /\ Len(log[k].poolAfter) = ID_POOL_SIZE
            /\ k < Calls =>
                /\ Pooled(k + 1)
                /\ log[k + 1].poolBefore = log[k].poolAfter
                /\ log[k + 1].id \in Range(log[k].poolAfter)

\* C4's case: a second call arrives after a call that found the pool empty.
C4_Witness ==
    \E k \in 1..(Calls - 1) : Direct(k) /\ log[k].poolBefore = <<>>

\* C5 as stated: with capacity 3, of 5 calls on a fresh pool the first 3
\* return the initial batch and the 4th and 5th both return pooled values of
\* the new batch; all 5 differ.
C5_FourthAndFifthPooled ==
    (pc # "start" /\ ID_POOL_SIZE = 3 /\ Calls >= 5) =>
        /\ Ids(1, 3) = Range(initialPool)
        /\ \A k \in 1..3 : Pooled(k)
        /\ Pooled(4) /\ Pooled(5)
        /\ Ids(4, 5) \subseteq Range(log[4].poolAfter) \cup {log[4].id}
        /\ Cardinality(Ids(1, 5)) = 5

\* C5 as amended: with capacity 3, of 5 calls on a fresh pool the first 3
\* return the 3 values of the initial batch, the 4th refills the pool and
\* returns a directly generated value that is in neither batch, and the 5th
\* returns a pooled value of the new batch; all 5 differ.
C5_FourthDirectFifthPooled ==
    (pc # "start" /\ ID_POOL_SIZE = 3 /\ Calls >= 5) =>
        /\ Ids(1, 3) = Range(initialPool)
        /\ \A k \in 1..3 : Pooled(k)
        /\ Direct(4)
        /\ log[4].id \notin Range(initialPool) \cup Range(log[4].poolAfter)
        /\ Len(log[4].poolAfter) = 3
        /\ Pooled(5)
        /\ log[5].id \in Range(log[4].poolAfter)
        /\ Cardinality(Ids(1, 5)) = 5

\* C5's case: capacity 3 and exactly 5 sequential calls.
C5_Witness ==
    pc = "pool" /\ ID_POOL_SIZE = 3 /\ Calls = 5 /\ normalCalls = 0

\* C10: a call that finds the pool empty returns a fresh identifier that is
\* not in the regenerated pool and leaves the pool holding exactly
\* ID_POOL_SIZE identifiers; the fallback is taken exactly on the calls
\* number k * (ID_POOL_SIZE + 1), and regenerateIdPool is only invoked on an
\* empty pool, so no pooled identifier is discarded unused.
C10_FallbackEveryCapacityPlusOne ==
    pc # "start" =>
        /\ discarded = 0
        /\ regenCalls = 1 + Cardinality({k \in 1..Calls : Direct(k)})
        /\ \A k \in 1..Calls :
            /\ Direct(k) <=> k % (ID_POOL_SIZE + 1) = 0
            /\ Direct(k) =>
                /\ log[k].poolBefore = <<>>
                /\ log[k].id \notin Range(log[k].poolAfter)
                /\ Len(log[k].poolAfter) = ID_POOL_SIZE
                /\ Cardinality(Range(log[k].poolAfter)) = ID_POOL_SIZE
                /\ \A m \in 1..(k - 1) :
                    log[m].id \notin Range(log[k].poolAfter) \cup {log[k].id}
            /\ log[k].regens = 1 + k \div (ID_POOL_SIZE + 1)

\* C10's case: the fallback taken for the second time, on a pool of several.
C10_Witness ==
    /\ ID_POOL_SIZE >= 2
    /\ Calls = 2 * (ID_POOL_SIZE + 1)
    /\ Direct(Calls)

\* The sum of s[lo], ..., s[hi].
RECURSIVE SumFrom(_, _, _)
SumFrom(s, lo, hi) == IF lo > hi THEN 0 ELSE s[lo] + SumFrom(s, lo + 1, hi)

\* The generateId() calls made on the generator under test.
CallsOn(g) == IF g = "normal" THEN normalCalls ELSE Calls

\* C6: runTrials makes exactly trials * ID_COUNT generateId() calls and
\* returns exactly `trials` results in trial order; result k is the mean of
\* the ID_COUNT durations measured in trial k (their sum divided by
\* ID_COUNT), and is not negative.
C6_OneMeanPerTrial ==
    pc = "averaged" =>
        /\ CallsOn(gen) = trials * ID_COUNT
        /\ Len(times) = trials * ID_COUNT
        /\ \A m \in 1..Len(times) : times[m] >= 0
        /\ Len(averageTimes) = trials
        /\ \A k \in 1..trials :
            LET sum == SumFrom(times, (k - 1) * ID_COUNT + 1, k * ID_COUNT)
            IN  /\ sum >= 0
                /\ averageTimes[k].kind = "number"
                /\ averageTimes[k] = Divide(FromInt(sum), FromInt(ID_COUNT))

\* C6's case: two trials of two calls on the cached generator, with
\* different means.
C6_Witness ==
    /\ pc = "averaged"
    /\ gen = "cached"
    /\ trials = 2
    /\ ID_COUNT = 2
    /\ times[1] + times[2] > times[3] + times[4]
    /\ times[3] + times[4] > 0
    /\ averageTimes[1] # averageTimes[2]

\* The integer that a number made by FromInt stands for.
IntegerValue(x) == IF IsZero(x) THEN 0 ELSE ToInt3(ShiftRight3(x.mant, -x.exp))

\* The text `ratio`, h hundredths, is a / b to two decimals: h / 100 is no
\* further than half a hundredth from a / b (Infinity or NaN when b = 0).
IsRatio(ratio, a, b) ==
    IF b = 0 THEN ratio = <<IF a = 0 THEN "NaN" ELSE "Infinity", 0>>
    ELSE /\ ratio[1] = "finite"
         /\ 2 * (100 * a - ratio[2] * b) <= b
         /\ 2 * (ratio[2] * b - 100 * a) <= b

\* C7: printComparisonTable makes one row per trial index, numbered from 1;
\* the row says "faster" with the ratio normal / cached when the normal mean
\* is strictly greater than the cached one, and otherwise "slower" with the
\* ratio cached / normal; equal means are "1.00x slower", a mean twice the
\* other gives "2.00".
C7_FasterOrSlower ==
    pc = "done" =>
        /\ Len(table) = Len(normalTimes)
        /\ \A k \in 1..Len(table) :
            LET n == IntegerValue(normalTimes[k])
                c == IntegerValue(cachedTimes[k])
                d == table[k].Difference
            IN  /\ table[k].Trial = k
                /\ IF n > c
                   THEN d[2] = "x faster" /\ IsRatio(d[1], n, c)
                   ELSE d[2] = "x slower" /\ IsRatio(d[1], c, n)
                /\ (n > 0 /\ n = c) => d = <<<<"finite", 100>>, "x slower">>
                /\ (c > 0 /\ n = 2 * c) => d = <<<<"finite", 200>>, "x faster">>
                /\ (n > 0 /\ c = 2 * n) => d = <<<<"finite", 200>>, "x slower">>

\* C7's case: a table of two rows, means 10 and 5 in the first and equal
\* means in the second.
C7_Witness ==
    /\ pc = "done"
    /\ Len(table) = 2
    /\ IntegerValue(normalTimes[1]) = 10
    /\ IntegerValue(cachedTimes[1]) = 5
    /\ table[1].Difference[2] = "x faster"
    /\ IntegerValue(normalTimes[2]) = 5
    /\ IntegerValue(cachedTimes[2]) = 5
    /\ table[2].Difference[2] = "x slower"

\* C8: a non-positive trial count is rejected with a configuration error:
\* runTrials with trials <= 0 never returns a result.
C8_NonPositiveTrialsRejected ==
    trials <= 0 => pc \notin {"averaged", "print", "done"}

\* The shipped run asks the pool for no more identifiers than it holds.
FitsPool(t, idCount, size) == t * idCount <= size

\* C9: in an experiment that asks the cached generator for no more
\* identifiers than the pool holds, as runExperiment(5) does with
\* ID_COUNT = 100000 and ID_POOL_SIZE = 1000000, every generateId() call
\* finds the pool non-empty, regenerateIdPool is invoked exactly once (by the
\* constructor) and the fallback is never taken.
C9_PoolNeverEmpty ==
    /\ FitsPool(ShippedTrials, ShippedIdCount, ShippedPoolSize)
    /\ (pc # "start" /\ FitsPool(trials, ID_COUNT, ID_POOL_SIZE)) =>
        /\ regenCalls = 1
        /\ \A k \in 1..Calls : Pooled(k) /\ log[k].poolBefore # <<>>
        /\ Len(idPool) = ID_POOL_SIZE - Calls

\* C9's case: a finished experiment that used half of the pool, as the
\* shipped one does.
C9_Witness ==
    /\ pc = "done"
    /\ trials = 2
    /\ Calls = trials * ID_COUNT
    /\ 2 * Calls = ID_POOL_SIZE
    /\ 2 * Len(idPool) = ID_POOL_SIZE

====
